---- MODULE Spec2Model ----
\* A state-machine model of the Symbiosome message-routing engine
\* (src/src/symbiosome.ts): the listener and portal registries of each engine
\* instance, the same-origin BroadcastChannel ("local bus"), the cross-context
\* window.postMessage channel, and the embedded iframes created for portals.
EXTENDS Integers, Sequences, FiniteSets, TLC

\* ------------------------------------------------------------------ bounds
\* Messages in flight (queued on a BroadcastChannel or on a window) at once.
MaxInFlight == 1
\* iframes one run may create (frame identities are never reused).
MaxFrames == 2
\* Messages in flight at once in the runs that follow messages end to end.
MaxNetInFlight == 4
\* Messages that code outside the engine posts to a window in one run.
MaxForeignPosts == 1

\* ------------------------------------------------------------------ values
OriginA == "https://a.example"
OriginB == "https://b.example"
OriginC == "https://c.example"
Undefined == "undefined"
InvalidURL == "not a url"

\* Engine instances (one per window) and the origin of the window each lives
\* in: "a" is a page of origin A, "c" a page of origin C; "p", "t" and "u" are
\* pages of origin B.
Instances == {"a", "c", "p", "t", "u"}
OriginOf(i) == IF i = "a" THEN OriginA ELSE IF i = "c" THEN OriginC ELSE OriginB

\* Strings handed to listenToOrigin / addPortal.
URLStrings ==
    { OriginA, "https://a.example:443/portal?x=1",
      OriginB, "HTTPS://B.EXAMPLE/index.html", InvalidURL }
\* Strings handed to pushToOrigin / removePortal / removeListener.
OriginArgs == { OriginA, "https://a.example:443/portal?x=1", OriginB, "constructor" }
\* Origins a cross-context message can be sent from.
SenderOrigins == { OriginA, OriginB, OriginC }
\* Values of the `parent` search parameter of a top-level page.
ParentParams == { Undefined, "", OriginA, OriginB }
Messages == { "m1", "m2" }
Handlers == { "h", "h2" }

\* new URL( s ) throws a TypeError for a string that is no absolute URL.
ValidURL(s) == s # InvalidURL
\* Mutant: the string is used as given.
URLOrigin_Raw(s) == s

\* new URL( s ).origin: scheme and host lower-cased, default port, path and
\* search dropped.
URLOrigin(s) ==
    CASE s = OriginA -> OriginA
      [] s = "https://a.example:443/portal?x=1" -> OriginA
      [] s = OriginB -> OriginB
      [] s = "HTTPS://B.EXAMPLE/index.html" -> OriginB
      [] s = OriginC -> OriginC
      [] OTHER -> "TypeError"

\* ------------------------------------------------------------------ state
VARIABLES
    context,       \* i -> [constructed, isPortal, hasDefaults]; hasDefaults:
                   \* the context has the five default callbacks and the
                   \* debug sink (else it has none of them)
    host,          \* i -> 0 (top-level window) or the frame the instance lives in
    parentOrigin,  \* i -> the captured parent origin, or Undefined
    listeners,     \* i -> (origin -> handler), a partial map
    portals,       \* i -> (origin -> [frame, window]), a partial map
    listenerKeys,  \* i -> the keys of this.listeners, in insertion order
    portalKeys,    \* i -> the keys of this.portals, in insertion order
    frames,        \* sequence of iframes ever created; the index is the identity
    busQueue,      \* i -> message events queued on i's BroadcastChannel
    winQueue,      \* i -> message events queued on i's window
    last,          \* the call that just ran and what it did; Idle between calls
    hist           \* history: the pushes made, the messages other code posted
                   \* and the handler invocations, in order

vars == << context, host, parentOrigin, listeners, portals, listenerKeys,
           portalKeys, frames, busQueue, winQueue, last, hist >>

\* The empty object {}.
EmptyObject == [ k \in {} |-> Undefined ]
\* The keys of an object, as Object.keys lists them: in the order they were
\* inserted (no key of a registry is an integer index).
\* keys after obj[ k ] = v: a new key goes last, an existing key keeps its place.
PutKey(keys, k) ==
    IF \E n \in 1..Len(keys) : keys[n] = k THEN keys ELSE Append(keys, k)
\* keys after delete obj[ k ]
DeleteKey(keys, k) == SelectSeq(keys, LAMBDA x : x # k)
\* keys of target after Object.assign( target, source ): the keys of the
\* source are put one by one, in the source's order.
RECURSIVE AssignKeys(_, _)
AssignKeys(target, source) ==
    IF source = << >> THEN target
    ELSE AssignKeys(PutKey(target, Head(source)), Tail(source))
\* The members an object created with {} inherits from Object.prototype.
ObjectPrototype ==
    { "constructor", "toString", "toLocaleString", "valueOf", "hasOwnProperty",
      "isPrototypeOf", "propertyIsEnumerable", "__proto__",
      "__defineGetter__", "__defineSetter__", "__lookupGetter__",
      "__lookupSetter__" }
\* obj[ k ] is truthy: k is an own key (every value stored is a function or
\* an object) or the name of an inherited member.
Has(obj, k) == k \in DOMAIN obj \/ k \in ObjectPrototype
\* obj[ k ] is an entry the engine stored, not an inherited member.
HasOwn(obj, k) == k \in DOMAIN obj
\* obj[ k ] = v
Put(obj, k, v) == [ x \in (DOMAIN obj) \cup {k} |-> IF x = k THEN v ELSE obj[x] ]
\* delete obj[ k ]
Delete(obj, k) == [ x \in (DOMAIN obj) \ {k} |-> obj[x] ]

\* One observable effect of an operation.
Effect(kind, name, inst, frame, origin, data) ==
    [ kind |-> kind, name |-> name, inst |-> inst, frame |-> frame,
      origin |-> origin, data |-> data ]

\* No engine instance has been constructed in the window.
NoContext == [ constructed |-> FALSE, isPortal |-> FALSE, hasDefaults |-> FALSE ]

\* No call is running: control is with the event loop.
Idle ==
    [ op |-> "idle", inst |-> Undefined, arg |-> Undefined,
      msg |-> Undefined, handler |-> Undefined, cb |-> FALSE,
      result |-> "ok", effects |-> << >>, ret |-> << >>, debug |-> << >>,
      contentWindow |-> TRUE,
      preListeners |-> EmptyObject, prePortals |-> EmptyObject,
      preFrames |-> 0, preAttached |-> {}, preBusQueue |-> << >>,
      preInFlight |-> 0 ]

\* The history is not kept.
NoHistory ==
    [ on |-> FALSE, pusher |-> Undefined, sent |-> << >>, posted |-> << >>,
      got |-> [ i \in Instances |-> << >> ] ]

Init ==
    /\ context = [ i \in Instances |->
            IF i = "t" THEN [ constructed |-> TRUE, isPortal |-> FALSE,
                              hasDefaults |-> FALSE ]
            ELSE NoContext ]
    /\ host = [ i \in Instances |-> 0 ]
    /\ parentOrigin = [ i \in Instances |-> Undefined ]
    /\ listeners = [ i \in Instances |-> EmptyObject ]
    /\ portals = [ i \in Instances |-> EmptyObject ]
    /\ listenerKeys = [ i \in Instances |-> << >> ]
    /\ portalKeys = [ i \in Instances |-> << >> ]
    /\ frames = << >>
    /\ busQueue = [ i \in Instances |-> << >> ]
    /\ winQueue = [ i \in Instances |-> << >> ]
    /\ last = Idle
    /\ hist = NoHistory


\* ------------------------------------------------------------- environment
\* this.channelID = `symbiosome__${window.location.origin}`
channelID(i) == << "symbiosome__", OriginOf(i) >>

\* The other BroadcastChannel objects of the same name: a BroadcastChannel
\* never delivers a message to the object that posted it.
Subscribers(i) ==
    { j \in Instances : j # i /\ context[j].constructed
                        /\ channelID(j) = channelID(i) }

\* The engine instance living in frame f, if any.
HostedIn(F) == { j \in Instances : context[j].constructed /\ host[j] \in F }

RECURSIVE SumLen(_, _)
SumLen(q, S) ==
    IF S = {} THEN 0
    ELSE LET j == CHOOSE x \in S : TRUE IN Len(q[j]) + SumLen(q, S \ {j})
InFlight == SumLen(busQueue, Instances) + SumLen(winQueue, Instances)
\* The bound on the messages in flight: the runs that keep the history follow
\* messages from the push to the handlers and let more of them queue up.
Capacity == IF hist.on THEN MaxNetInFlight ELSE MaxInFlight

\* The history after the operation recorded in l: a pushToOrigin that returned
\* is added to the pushes, a message other code posted to a window to the
\* posts (with the mode and the parent origin of the instance living in that
\* window), each handler invocation to what its instance got.
Recorded(l) ==
    IF ~hist.on THEN hist
    ELSE [ on |-> TRUE, pusher |-> hist.pusher,
           sent |-> IF l.op = "pushToOrigin" /\ l.result = "ok"
                    THEN Append(hist.sent,
                                [ inst |-> l.inst, origin |-> l.arg, data |-> l.msg ])
                    ELSE hist.sent,
           posted |-> IF l.op = "postMessage"
                      THEN Append(hist.posted,
                                  [ inst |-> l.inst, origin |-> l.arg, data |-> l.msg,
                                    portal |-> context[l.inst].isPortal,
                                    parent |-> parentOrigin[l.inst] ])
                      ELSE hist.posted,
           got |-> [ j \in Instances |->
                IF j # l.inst THEN hist.got[j]
                ELSE hist.got[j] \o
                     [ n \in 1..Len(SelectSeq(l.effects, LAMBDA e : e.kind = "handler")) |->
                        [ origin |-> SelectSeq(l.effects, LAMBDA e : e.kind = "handler")[n].origin,
                          data |-> SelectSeq(l.effects, LAMBDA e : e.kind = "handler")[n].data ] ] ] ]

\* The frames detached when the frames F are removed from the document: F,
\* and the frames owned by the instances living inside them, transitively.
RECURSIVE DetachClosure(_)
DetachClosure(F) ==
    LET G == F \cup { g \in 1..Len(frames) :
                        frames[g].attached /\ frames[g].owner \in HostedIn(F) }
    IN IF G = F THEN F ELSE DetachClosure(G)

\* The record of an operation: the call (method, instance, arguments), its
\* outcome (result, effects in order, returned value) and what the instance's
\* state was when it started. cb: whether the per-call callback was given
\* (for the constructor: context.isPortal); arg: the string argument (for a
\* message event: the sender's origin or the envelope's origin).
Op(op, inst, arg, msg, handler, cb, result, effects, ret) ==
    [ op |-> op, inst |-> inst, arg |-> arg, msg |-> msg, handler |-> handler,
      cb |-> cb, result |-> result, effects |-> effects, ret |-> ret,
      debug |-> << >>, contentWindow |-> TRUE,
      preListeners |-> listeners[inst], prePortals |-> portals[inst],
      preFrames |-> Len(frames),
      preAttached |-> { f \in 1..Len(frames) : frames[f].attached },
      preBusQueue |-> busQueue[inst], preInFlight |-> InFlight ]

\* Mutant: the per-call callback is ignored, the configured default is used.
Notify_IgnoresPerCall(i, cb, perCall, dflt, origin, data) ==
    IF context[i].hasDefaults
    THEN << Effect("callback", dflt, i, 0, origin, data) >>
    ELSE << >>

\* Mutant: the configured default is invoked even when a per-call callback is given.
Notify_Both(i, cb, perCall, dflt, origin, data) ==
    ( IF cb THEN << Effect("callback", perCall, i, 0, origin, data) >> ELSE << >> )
    \o ( IF context[i].hasDefaults
         THEN << Effect("callback", dflt, i, 0, origin, data) >>
         ELSE << >> )

\* ( perCall ?? this.context.<dflt> )?.( origin, message )
Notify(i, cb, perCall, dflt, origin, data) ==
    IF cb THEN << Effect("callback", perCall, i, 0, origin, data) >>
    ELSE IF context[i].hasDefaults
         THEN << Effect("callback", dflt, i, 0, origin, data) >>
         ELSE << >>

\* One call of the debug sink: the message and the data array handed to it.
Trace(message, data) == [ message |-> message, data |-> data ]

\* this.context.debug?.( message, data ), call after call: the traces reach
\* the sink when the context has one. Every method makes its debug calls before
\* it invokes a callback or a handler and before it publishes.
debug(configured, traces) == IF configured THEN traces ELSE << >>

\* ------------------------------------------------------------- constructor
\* Mutant: a `parent` param equal to the own origin is captured as well.
CapturedParent_OwnAllowed(i, isPortal, param) ==
    IF isPortal /\ param # Undefined /\ param # ""
    THEN param ELSE Undefined

\* this.parentOrigin as the constructor computes it from the `parent` param.
CapturedParent(i, isPortal, param) ==
    IF isPortal /\ param # Undefined /\ param # "" /\ param # OriginOf(i)
    THEN param ELSE Undefined

\* Mutant: only an instance in portal mode announces its own origin.
announceOwnOrigin_PortalOnly(i, isPortal, hasDefaults) ==
    IF isPortal /\ hasDefaults
    THEN << Effect("callback", "onPortalAdded", i, 0, OriginOf(i), Undefined) >>
    ELSE << >>

\* this.context.onPortalAdded?.( window.origin ), the constructor's last statement
announceOwnOrigin(i, isPortal, hasDefaults) ==
    IF hasDefaults
    THEN << Effect("callback", "onPortalAdded", i, 0, OriginOf(i), Undefined) >>
    ELSE << >>

\* The constructor's debug calls: the channel name; in portal mode the
\* `parent` param and, when no parent origin is captured, a note of that.
constructorTraces(i, isPortal, param) ==
    << Trace(<< "Channel ID" >>, << channelID(i) >>) >>
    \o ( IF ~isPortal THEN << >>
         ELSE << Trace(<< "Parent origin" >>, << param >>) >>
              \o ( IF CapturedParent(i, isPortal, param) = Undefined
                   THEN << Trace(<< "Is portal but parent is undefined" >>, << >>) >>
                   ELSE << >> ) )

ConstructAt(i, isPortal, hasDefaults, f, param) ==
    /\ last = Idle
    /\ ~context[i].constructed
    /\ context' = [context EXCEPT ![i] =
            [ constructed |-> TRUE, isPortal |-> isPortal,
              hasDefaults |-> hasDefaults ]]
    /\ host' = [host EXCEPT ![i] = f]
    /\ parentOrigin' = [parentOrigin EXCEPT ![i] = CapturedParent(i, isPortal, param)]
    /\ listeners' = [listeners EXCEPT ![i] = EmptyObject]
    /\ portals' = [portals EXCEPT ![i] = EmptyObject]
    /\ listenerKeys' = [listenerKeys EXCEPT ![i] = << >>]
    /\ portalKeys' = [portalKeys EXCEPT ![i] = << >>]
    /\ busQueue' = [busQueue EXCEPT ![i] = << >>]
    /\ winQueue' = [winQueue EXCEPT ![i] = << >>]
    /\ last' = [ Op("constructor", i, param, Undefined, Undefined, isPortal, "ok",
                     announceOwnOrigin(i, isPortal, hasDefaults), << >>)
                 EXCEPT !.debug = debug(hasDefaults,
                                        constructorTraces(i, isPortal, param)) ]
    /\ UNCHANGED frames
    /\ hist' = Recorded(last')

\* new Symbiosome( context ) in a top-level page opened with ?parent=param.
Construct(i, isPortal, hasDefaults, param) ==
    ConstructAt(i, isPortal, hasDefaults, 0, param)

\* new Symbiosome( context ) in the page loaded into the iframe f, whose src
\* addPortal built with ?parent=<the owner's origin>.
ConstructInFrame(i, isPortal, hasDefaults, f) ==
    /\ f \in 1..Len(frames)
    /\ frames[f].attached
    /\ frames[f].src.origin = OriginOf(i)
    /\ HostedIn({f}) = {}
    /\ ConstructAt(i, isPortal, hasDefaults, f, frames[f].src.parent)

\* ---------------------------------------------------------------- broadcast
\* Mutant: broadcast without the local delivery to the instance's own listener.
broadcastEffects_NoLocal(i, origin, data) ==
    << Effect("publish", "symbiosome__", i, 0, origin, data) >>

\* Mutant: the local delivery serves whatever listener the instance has, not
\* the one registered under the envelope's origin.
broadcastEffects_AnyListener(i, origin, data) ==
    << Effect("publish", "symbiosome__", i, 0, origin, data) >>
    \o ( IF DOMAIN listeners[i] # {}
         THEN LET k == IF \E x \in DOMAIN listeners[i] : x # origin
                       THEN CHOOSE x \in DOMAIN listeners[i] : x # origin
                       ELSE origin
              IN << Effect("handler", listeners[i][k], i, 0, origin, data) >>
         ELSE << >> )

\* The inherited members that throw a TypeError when called as
\* obj[ k ]( k, data ): Object.prototype is no function, __defineGetter__ and
\* __defineSetter__ expect a function as second argument.
InheritedCallThrows(k) == k \in { "__proto__", "__defineGetter__", "__defineSetter__" }

\* How this.listeners[ origin ]( origin, data ) ends once the lookup is
\* truthy: a registered handler returns, an inherited member returns or throws.
listenerCall(i, origin) ==
    IF Has(listeners[i], origin) /\ ~HasOwn(listeners[i], origin)
       /\ InheritedCallThrows(origin)
    THEN "TypeError" ELSE "ok"

\* What broadcast( origin, data ) does: the publish, then the local delivery.
broadcastEffects(i, origin, data) ==
    << Effect("publish", "symbiosome__", i, 0, origin, data) >>
    \o ( IF ~Has(listeners[i], origin)
         THEN << >>
         ELSE IF ~HasOwn(listeners[i], origin)
         THEN << >>    \* an inherited member is called: see listenerCall
         ELSE << Effect("handler", listeners[i][origin], i, 0, origin, data) >> )

\* Mutant: the posting BroadcastChannel object receives its own message too.
broadcastQueues_Echo(q, i, origin, data) ==
    [ j \in Instances |->
        IF j \in Subscribers(i) \cup {i}
        THEN Append(q[j], [ origin |-> origin, data |-> data ])
        ELSE q[j] ]

\* The BroadcastChannel queues after instance i posted { origin, data },
\* starting from the queues q.
broadcastQueues(q, i, origin, data) ==
    [ j \in Instances |->
        IF j \in Subscribers(i)
        THEN Append(q[j], [ origin |-> origin, data |-> data ])
        ELSE q[j] ]

\* Mutant: a listener registered on any instance of the origin is served.
handleBroadcast_SharedRegistry(i) ==
    /\ last = Idle
    /\ context[i].constructed
    /\ busQueue[i] # << >>
    /\ LET ev == Head(busQueue[i])
           owners == { j \in Subscribers(i) \cup {i} : HasOwn(listeners[j], ev.origin) }
       IN
        /\ busQueue' = [busQueue EXCEPT ![i] = Tail(busQueue[i])]
        /\ last' = Op("handleBroadcast", i, ev.origin, ev.data, Undefined, FALSE, "ok",
                      IF owners = {}
                      THEN << >>
                      ELSE << Effect("handler",
                                     listeners[CHOOSE j \in owners : TRUE][ev.origin],
                                     i, 0, ev.origin, ev.data) >>,
                      << >>)
    /\ UNCHANGED << context, host, parentOrigin, listeners, listenerKeys, portals, portalKeys, frames, winQueue >>
    /\ hist' = Recorded(last')

\* The debug calls of handleBroadcast for the message event ev.
handleBroadcastTraces(i, ev) ==
    << Trace(<< "Incoming broadcast" >>, << ev >>) >>
    \o ( IF ~Has(listeners[i], ev.origin)
         THEN << Trace(<< "Broadcast received from unlisted origin" >>, << ev >>) >>
         ELSE << >> )

\* handleBroadcast: a message event of the BroadcastChannel.
handleBroadcast(i) ==
    /\ last = Idle
    /\ context[i].constructed
    /\ busQueue[i] # << >>
    /\ LET ev == Head(busQueue[i]) IN
        /\ busQueue' = [busQueue EXCEPT ![i] = Tail(busQueue[i])]
        /\ last' = [ Op("handleBroadcast", i, ev.origin, ev.data, Undefined, FALSE,
                         listenerCall(i, ev.origin),
                         IF ~Has(listeners[i], ev.origin)
                         THEN << >>
                         ELSE IF ~HasOwn(listeners[i], ev.origin)
                         THEN << >>    \* an inherited member is called: see listenerCall
                         ELSE << Effect("handler", listeners[i][ev.origin], i, 0,
                                        ev.origin, ev.data) >>,
                         << >>)
                     EXCEPT !.debug = debug(context[i].hasDefaults,
                                            handleBroadcastTraces(i, ev)) ]
    /\ UNCHANGED << context, host, parentOrigin, listeners, listenerKeys, portals, portalKeys, frames, winQueue >>
    /\ hist' = Recorded(last')

\* Mutant: every instance listens to the message events of its window.
subscribed_Always(i) == TRUE

\* window.addEventListener( `message`, this.handlePortalMessage ) was called:
\* the constructor does so in portal mode only.
subscribed(i) == context[i].isPortal

\* Mutant: the sender's origin is not compared with the parent origin.
FromParent_Any(i, sender) == TRUE

\* event.origin !== this.parentOrigin is false
FromParent(i, sender) == sender = parentOrigin[i]

\* Mutant: the message of the parent is published under the own origin
\* ( window.origin ) instead of the sender's.
handlePortalMessage_TagsOwn(i) ==
    /\ last = Idle
    /\ context[i].constructed
    /\ subscribed(i)
    /\ winQueue[i] # << >>
    /\ LET ev == Head(winQueue[i]) IN
        /\ winQueue' = [winQueue EXCEPT ![i] = Tail(winQueue[i])]
        /\ IF ~FromParent(i, ev.origin)
           THEN /\ busQueue' = busQueue
                /\ last' = Op("handlePortalMessage", i, ev.origin, ev.data, Undefined,
                              FALSE, "ok", << >>, << >>)
           ELSE /\ InFlight - 1 + Cardinality(Subscribers(i)) <= Capacity
                /\ busQueue' = broadcastQueues(busQueue, i, OriginOf(i), ev.data)
                /\ last' = Op("handlePortalMessage", i, ev.origin, ev.data, Undefined,
                              FALSE, "ok", broadcastEffects(i, OriginOf(i), ev.data), << >>)
    /\ UNCHANGED << context, host, parentOrigin, listeners, listenerKeys, portals, portalKeys, frames >>
    /\ hist' = Recorded(last')

\* The debug calls of handlePortalMessage for the message event ev.
handlePortalMessageTraces(i, ev) ==
    << Trace(<< "Incoming message" >>, << ev >>) >>
    \o ( IF ~FromParent(i, ev.origin)
         THEN << Trace(<< "Incoming message from", ev.origin,
                          "not from parent", parentOrigin[i] >>, << ev >>) >>
         ELSE << >> )

\* handlePortalMessage: a message event of the window (portal mode only).
handlePortalMessage(i) ==
    /\ last = Idle
    /\ context[i].constructed
    /\ subscribed(i)
    /\ winQueue[i] # << >>
    /\ LET ev == Head(winQueue[i]) IN
        /\ winQueue' = [winQueue EXCEPT ![i] = Tail(winQueue[i])]
        /\ IF ~FromParent(i, ev.origin)
           THEN /\ busQueue' = busQueue
                /\ last' = [ Op("handlePortalMessage", i, ev.origin, ev.data,
                                 Undefined, FALSE, "ok", << >>, << >>)
                             EXCEPT !.debug = debug(context[i].hasDefaults,
                                                    handlePortalMessageTraces(i, ev)) ]
           ELSE /\ InFlight - 1 + Cardinality(Subscribers(i)) <= Capacity
                /\ busQueue' = broadcastQueues(busQueue, i, ev.origin, ev.data)
                /\ last' = [ Op("handlePortalMessage", i, ev.origin, ev.data,
                                 Undefined, FALSE, listenerCall(i, ev.origin),
                                 broadcastEffects(i, ev.origin, ev.data), << >>)
                             EXCEPT !.debug = debug(context[i].hasDefaults,
                                                    handlePortalMessageTraces(i, ev)) ]
    /\ UNCHANGED << context, host, parentOrigin, listeners, listenerKeys, portals, portalKeys, frames >>
    /\ hist' = Recorded(last')

\* A window of origin `sender` posts `data` to the window instance i lives in.
WindowPostMessage(i, sender, data) ==
    /\ last = Idle
    /\ context[i].constructed
    /\ InFlight < Capacity
    /\ winQueue' = [winQueue EXCEPT ![i] =
            Append(winQueue[i], [ origin |-> sender, data |-> data ])]
    /\ last' = Op("postMessage", i, sender, data, Undefined, FALSE, "ok", << >>, << >>)
    /\ UNCHANGED << context, host, parentOrigin, listeners, listenerKeys, portals, portalKeys, frames, busQueue >>
    /\ hist' = Recorded(last')

\* A message event on the window of an instance that is not in portal mode:
\* the constructor added no listener, nothing of the engine runs.
WindowMessageUnheard(i) ==
    /\ last = Idle
    /\ context[i].constructed
    /\ ~subscribed(i)
    /\ winQueue[i] # << >>
    /\ winQueue' = [winQueue EXCEPT ![i] = Tail(winQueue[i])]
    /\ last' = Op("unheard", i, Head(winQueue[i]).origin, Head(winQueue[i]).data,
                  Undefined, FALSE, "ok", << >>, << >>)
    /\ UNCHANGED << context, host, parentOrigin, listeners, listenerKeys, portals, portalKeys, frames, busQueue >>
    /\ hist' = Recorded(last')


\* ----------------------------------------------------------- public methods
\* Mutant: the callback is invoked before the error is thrown.
Throws_AfterCallback(op, i, arg, handler, error) ==
    /\ last' = Op(op, i, arg, Undefined, handler, FALSE, error,
                  Notify(i, TRUE, op, op, arg, Undefined), << >>)
    /\ UNCHANGED << context, host, parentOrigin, listeners, listenerKeys, portals, portalKeys, frames,
                    busQueue, winQueue >>

\* An operation that throws before it did anything: nothing changes but the
\* record of the call (its method, its first argument, the handler and the error).
Throws(op, i, arg, handler, error) ==
    /\ last' = Op(op, i, arg, Undefined, handler, FALSE, error, << >>, << >>)
    /\ UNCHANGED << context, host, parentOrigin, listeners, listenerKeys, portals, portalKeys, frames,
                    busQueue, winQueue >>

\* Mutant: the registry is not consulted before a listener is added.
listenerExists_Never(i, origin) == FALSE

\* this.listeners[ _origin ] is truthy
listenerExists(i, origin) == Has(listeners[i], origin)

listenToOrigin(i, url, handler, cb) ==
    /\ last = Idle
    /\ context[i].constructed
    /\ IF ~ValidURL(url)
       THEN Throws("listenToOrigin", i, url, handler, "TypeError")
       ELSE LET _origin == URLOrigin(url) IN
            IF listenerExists(i, _origin)
            THEN Throws("listenToOrigin", i, url, handler, "DuplicateOrigin")
            ELSE /\ listeners' = [listeners EXCEPT ![i] = Put(listeners[i], _origin, handler)]
                 /\ listenerKeys' = [listenerKeys EXCEPT ![i] = PutKey(listenerKeys[i], _origin)]
                 /\ last' = Op("listenToOrigin", i, url, Undefined, handler, cb, "ok",
                               Notify(i, cb, "onListen", "onListenToOrigin", _origin, Undefined),
                               << >>)
                 /\ UNCHANGED << context, host, parentOrigin, portals, portalKeys, frames,
                                 busQueue, winQueue >>
    /\ hist' = Recorded(last')

\* Mutant: no origin is taken for the own origin.
isOwnOrigin_Never(i, origin) == FALSE

\* _origin === window.origin
isOwnOrigin(i, origin) == origin = OriginOf(i)

\* Mutant: the registry is not consulted before a portal is added.
portalExists_Never(i, origin) == FALSE

\* this.portals[ _origin ] is truthy
portalExists(i, origin) == Has(portals[i], origin)

\* createFrame( name ) followed by frame.src = src.toString(): the iframe is
\* appended to the document and navigated to the portal URL with
\* ?parent=<own origin>.
createFrame(i, name) ==
    Append(frames, [ owner |-> i, name |-> name, attached |-> TRUE,
                     src |-> [ origin |-> name, parent |-> OriginOf(i) ] ])

\* contentWindow: whether the host gave the new iframe a window (frame.contentWindow
\* is not null).
addPortal(i, portalURL, cb, contentWindow) ==
    /\ last = Idle
    /\ context[i].constructed
    /\ IF ~ValidURL(portalURL)
       THEN Throws("addPortal", i, portalURL, Undefined, "TypeError")
       ELSE LET _origin == URLOrigin(portalURL)
                f == Len(frames) + 1
            IN
            IF isOwnOrigin(i, _origin)
            THEN Throws("addPortal", i, portalURL, Undefined, "SelfOrigin")
            ELSE IF portalExists(i, _origin)
            THEN Throws("addPortal", i, portalURL, Undefined, "DuplicateOrigin")
            ELSE /\ Len(frames) < MaxFrames
                 /\ frames' = createFrame(i, _origin)
                 /\ IF ~contentWindow
                    THEN /\ portals' = portals
                         /\ portalKeys' = portalKeys
                         /\ last' = [ Op("addPortal", i, portalURL, Undefined, Undefined, cb,
                                          "TransportUnavailable",
                                          << Effect("createFrame", _origin, i, f, _origin, Undefined) >>,
                                          << >>)
                                       EXCEPT !.contentWindow = FALSE ]
                    ELSE /\ portals' = [portals EXCEPT ![i] =
                                Put(portals[i], _origin, [ frame |-> f, window |-> f ])]
                         /\ portalKeys' = [portalKeys EXCEPT ![i] = PutKey(portalKeys[i], _origin)]
                         /\ last' = Op("addPortal", i, portalURL, Undefined, Undefined, cb, "ok",
                                       << Effect("createFrame", _origin, i, f, _origin, Undefined) >>
                                       \o Notify(i, cb, "onAdded", "onPortalAdded", _origin, Undefined),
                                       << >>)
                 /\ UNCHANGED << context, host, parentOrigin, listeners, listenerKeys,
                                 busQueue, winQueue >>
    /\ hist' = Recorded(last')

\* Mutant: the message is posted to the window of every iframe of the instance.
postMessage_EveryFrame(q, i, w, message, origin) ==
    [ j \in Instances |->
        IF j \in HostedIn({ f \in 1..Len(frames) :
                               frames[f].owner = i /\ frames[f].attached })
        THEN Append(q[j], [ origin |-> OriginOf(i), data |-> message ])
        ELSE q[j] ]

\* Mutant: the window hands the newest message event out first.
postMessage_Prepend(q, i, w, message, origin) ==
    [ j \in Instances |->
        IF j \in HostedIn({w}) /\ frames[w].attached /\ OriginOf(j) = origin
        THEN << [ origin |-> OriginOf(i), data |-> message ] >> \o q[j]
        ELSE q[j] ]

\* The window queues after instance i posted `message` to the window w with
\* target origin `origin`: the event is queued on the window of the instance
\* living in w when that window's origin is the target origin.
postMessage(q, i, w, message, origin) ==
    [ j \in Instances |->
        IF j \in HostedIn({w}) /\ frames[w].attached /\ OriginOf(j) = origin
        THEN Append(q[j], [ origin |-> OriginOf(i), data |-> message ])
        ELSE q[j] ]

pushToOrigin(i, origin, message, cb) ==
    /\ last = Idle
    /\ context[i].constructed
    /\ IF isOwnOrigin(i, origin)
       THEN /\ InFlight + Cardinality(Subscribers(i)) <= Capacity
            /\ busQueue' = broadcastQueues(busQueue, i, origin, message)
            /\ last' = Op("pushToOrigin", i, origin, message, Undefined, cb,
                          listenerCall(i, origin),
                          broadcastEffects(i, origin, message)
                          \o ( IF listenerCall(i, origin) = "ok"
                               THEN Notify(i, cb, "onPush", "onPushedMessage", origin, message)
                               ELSE << >> ),
                          << >>)
            /\ UNCHANGED << context, host, parentOrigin, listeners, listenerKeys, portals, portalKeys,
                            frames, winQueue >>
       ELSE IF ~portalExists(i, origin)
       THEN Throws("pushToOrigin", i, origin, Undefined, "PortalNotFound")
       ELSE IF ~HasOwn(portals[i], origin)
       THEN \* the inherited member has no .window: undefined.postMessage
            Throws("pushToOrigin", i, origin, Undefined, "TypeError")
       ELSE LET w == portals[i][origin].window IN
            /\ InFlight + Cardinality(HostedIn({w})) <= Capacity
            /\ winQueue' = postMessage(winQueue, i, w, message, origin)
            /\ last' = Op("pushToOrigin", i, origin, message, Undefined, cb, "ok",
                          << Effect("post", origin, i, w, origin, message) >>
                          \o Notify(i, cb, "onPush", "onPushedMessage", origin, message),
                          << >>)
            /\ UNCHANGED << context, host, parentOrigin, listeners, listenerKeys, portals, portalKeys,
                            frames, busQueue >>
    /\ hist' = Recorded(last')

\* frame.remove(): the iframe leaves the document; the browsing context in it,
\* every engine instance living there and every iframe they own go with it.
removeFrame(i, f) ==
    LET F == DetachClosure({f})
        gone == HostedIn(F)
    IN
    /\ frames' = [ g \in 1..Len(frames) |->
                    IF g \in F THEN [frames[g] EXCEPT !.attached = FALSE]
                    ELSE frames[g] ]
    /\ context' = [ j \in Instances |-> IF j \in gone THEN NoContext ELSE context[j] ]
    /\ host' = [ j \in Instances |-> IF j \in gone THEN 0 ELSE host[j] ]
    /\ parentOrigin' = [ j \in Instances |->
                    IF j \in gone THEN Undefined ELSE parentOrigin[j] ]
    /\ listeners' = [ j \in Instances |->
                    IF j \in gone THEN EmptyObject ELSE listeners[j] ]
    /\ listenerKeys' = [ j \in Instances |->
                    IF j \in gone THEN << >> ELSE listenerKeys[j] ]
    /\ busQueue' = [ j \in Instances |-> IF j \in gone THEN << >> ELSE busQueue[j] ]
    /\ winQueue' = [ j \in Instances |-> IF j \in gone THEN << >> ELSE winQueue[j] ]

\* Mutant: the iframe is removed but the registry entry is not deleted.
removePortal_KeepsEntry(i, origin, cb) ==
    /\ last = Idle
    /\ context[i].constructed
    /\ ~isOwnOrigin(i, origin)
    /\ portalExists(i, origin)
    /\ HasOwn(portals[i], origin)
    /\ removeFrame(i, portals[i][origin].frame)
    /\ portals' = portals
    /\ portalKeys' = portalKeys
    /\ last' = Op("removePortal", i, origin, Undefined, Undefined, cb, "ok",
                  << Effect("removeFrame", origin, i, portals[i][origin].frame,
                            origin, Undefined) >>
                  \o Notify(i, cb, "onRemoved", "onPortalRemoved", origin, Undefined),
                  << >>)
    /\ hist' = Recorded(last')

removePortal(i, origin, cb) ==
    /\ last = Idle
    /\ context[i].constructed
    /\ IF isOwnOrigin(i, origin)
       THEN Throws("removePortal", i, origin, Undefined, "SelfOrigin")
       ELSE IF ~portalExists(i, origin)
       THEN Throws("removePortal", i, origin, Undefined, "NotFound")
       ELSE IF ~HasOwn(portals[i], origin)
       THEN \* the inherited member has no .frame: undefined.remove()
            Throws("removePortal", i, origin, Undefined, "TypeError")
       ELSE LET f == portals[i][origin].frame
                gone == HostedIn(DetachClosure({f}))
            IN
            /\ removeFrame(i, f)
            /\ portals' = [ j \in Instances |->
                    IF j \in gone THEN EmptyObject
                    ELSE IF j = i THEN Delete(portals[i], origin)
                    ELSE portals[j] ]
            /\ portalKeys' = [ j \in Instances |->
                    IF j \in gone THEN << >>
                    ELSE IF j = i THEN DeleteKey(portalKeys[i], origin)
                    ELSE portalKeys[j] ]
            /\ last' = Op("removePortal", i, origin, Undefined, Undefined, cb, "ok",
                          << Effect("removeFrame", origin, i, f, origin, Undefined) >>
                          \o Notify(i, cb, "onRemoved", "onPortalRemoved", origin, Undefined),
                          << >>)
    /\ hist' = Recorded(last')

\* Mutant: one registry for both: removing the listener of an origin also
\* deletes the portal entry of that origin.
removeListener_DropsPortal(i, origin, cb) ==
    /\ last = Idle
    /\ context[i].constructed
    /\ IF ~listenerExists(i, origin)
       THEN Throws("removeListener", i, origin, Undefined, "NotFound")
       ELSE /\ listeners' = [listeners EXCEPT ![i] = Delete(listeners[i], origin)]
            /\ listenerKeys' = [listenerKeys EXCEPT ![i] = DeleteKey(listenerKeys[i], origin)]
            /\ portals' = [portals EXCEPT ![i] = Delete(portals[i], origin)]
            /\ portalKeys' = [portalKeys EXCEPT ![i] = DeleteKey(portalKeys[i], origin)]
            /\ last' = Op("removeListener", i, origin, Undefined, Undefined, cb, "ok",
                          Notify(i, cb, "onRemoved", "onListenerRemoved", origin, Undefined),
                          << >>)
            /\ UNCHANGED << context, host, parentOrigin, frames,
                            busQueue, winQueue >>
    /\ hist' = Recorded(last')

removeListener(i, origin, cb) ==
    /\ last = Idle
    /\ context[i].constructed
    /\ IF ~listenerExists(i, origin)
       THEN Throws("removeListener", i, origin, Undefined, "NotFound")
       ELSE /\ listeners' = [listeners EXCEPT ![i] = Delete(listeners[i], origin)]
            /\ listenerKeys' = [listenerKeys EXCEPT ![i] = DeleteKey(listenerKeys[i], origin)]
            /\ last' = Op("removeListener", i, origin, Undefined, Undefined, cb, "ok",
                          Notify(i, cb, "onRemoved", "onListenerRemoved", origin, Undefined),
                          << >>)
            /\ UNCHANGED << context, host, parentOrigin, portals, portalKeys, frames,
                            busQueue, winQueue >>
    /\ hist' = Recorded(last')

\* Mutant: the keys of the two registries concatenated instead of merged.
allKnownOrigins_Concat(i) == portalKeys[i] \o listenerKeys[i]

\* Object.keys of {} with this.portals, then this.listeners, assigned to it.
allKnownOrigins(i) ==
    AssignKeys(AssignKeys(<< >>, portalKeys[i]), listenerKeys[i])

getOrigins(i) ==
    /\ last = Idle
    /\ context[i].constructed
    /\ last' = Op("getOrigins", i, Undefined, Undefined, Undefined, FALSE, "ok",
                  << >>, allKnownOrigins(i))
    /\ UNCHANGED << context, host, parentOrigin, listeners, listenerKeys, portals, portalKeys, frames,
                    busQueue, winQueue >>
    /\ hist' = Recorded(last')

\* ------------------------------------------------------------ specification
\* The call returns (or throws) to the event loop: its record is dropped.
Return ==
    /\ last # Idle
    /\ last' = Idle
    /\ UNCHANGED << context, host, parentOrigin, listeners, listenerKeys, portals, portalKeys, frames,
                    busQueue, winQueue >>
    /\ hist' = Recorded(last')

\* The page under study, "p" (origin B), calls every method with every
\* argument; "t" is a second tab of the same origin, constructed before the
\* run starts (not in portal mode), sharing the local bus: it receives what
\* "p" publishes and pushes messages to its own origin. Windows of every
\* origin post the message "m2" to the window of "p".
\* Calls and event handlers run to completion, one at a time: each starts
\* when no other is running ( last = Idle ).
Next ==
    \/ \E isPortal \in BOOLEAN, hasDefaults \in BOOLEAN, param \in ParentParams :
            Construct("p", isPortal, hasDefaults, param)
    \/ \E url \in URLStrings, handler \in Handlers, cb \in BOOLEAN :
            listenToOrigin("p", url, handler, cb)
    \/ \E url \in URLStrings, cb \in BOOLEAN, contentWindow \in BOOLEAN :
            addPortal("p", url, cb, contentWindow)
    \/ \E origin \in OriginArgs, message \in Messages, cb \in BOOLEAN :
            pushToOrigin("p", origin, message, cb)
    \/ \E message \in Messages : pushToOrigin("t", OriginB, message, FALSE)
    \/ \E origin \in OriginArgs, cb \in BOOLEAN : removePortal("p", origin, cb)
    \/ \E origin \in OriginArgs, cb \in BOOLEAN : removeListener("p", origin, cb)
    \/ getOrigins("p")
    \/ \E i \in {"p", "t"} : handleBroadcast(i)
    \/ handlePortalMessage("p")
    \/ \E sender \in SenderOrigins : WindowPostMessage("p", sender, "m2")
    \/ WindowMessageUnheard("p")
    \/ Return

Spec == Init /\ [][Next]_vars


\* ------------------------------------------------- end-to-end specification
\* A page "a" of origin A and two tabs "t", "u" of origin B are open; "a" adds and
\* removes a portal for B, and the page loaded into the portal's iframe
\* constructs "p" in portal mode. One instance is the pusher of the run: "a",
\* pushing to B through the portal, or "t", pushing to its own origin; it
\* pushes each message once. The instances of origin B add and remove their
\* listener for the pusher's origin. Every call made is one that succeeds, no
\* other window posts anything, and the history of pushes and handler
\* invocations is kept.
Pushers == {"a", "t"}
Receivers == {"p", "t", "u"}

InitNet ==
    /\ context = [ i \in Instances |->
            IF i \in {"a", "t", "u"}
            THEN [ constructed |-> TRUE, isPortal |-> FALSE, hasDefaults |-> FALSE ]
            ELSE NoContext ]
    /\ host = [ i \in Instances |-> 0 ]
    /\ parentOrigin = [ i \in Instances |-> Undefined ]
    /\ listeners = [ i \in Instances |-> EmptyObject ]
    /\ portals = [ i \in Instances |-> EmptyObject ]
    /\ listenerKeys = [ i \in Instances |-> << >> ]
    /\ portalKeys = [ i \in Instances |-> << >> ]
    /\ frames = << >>
    /\ busQueue = [ i \in Instances |-> << >> ]
    /\ winQueue = [ i \in Instances |-> << >> ]
    /\ last = Idle
    /\ \E s \in Pushers : hist = [ NoHistory EXCEPT !.on = TRUE, !.pusher = s ]

\* The origin the pusher's messages are tagged with.
Tag == OriginOf(hist.pusher)
\* The pusher has pushed the message m already.
Sent(m) == \E n \in 1..Len(hist.sent) : hist.sent[n].data = m

NextNet ==
    \/ ~Has(portals["a"], OriginB) /\ addPortal("a", OriginB, FALSE, TRUE)
    \/ Has(portals["a"], OriginB) /\ removePortal("a", OriginB, FALSE)
    \/ \E f \in 1..Len(frames) : ConstructInFrame("p", TRUE, FALSE, f)
    \/ \E j \in Receivers :
            ~Has(listeners[j], Tag) /\ listenToOrigin(j, Tag, "h", FALSE)
    \/ \E j \in Receivers :
            Has(listeners[j], Tag) /\ removeListener(j, Tag, FALSE)
    \/ \E m \in Messages :
            /\ ~Sent(m)
            /\ hist.pusher = "a" => Has(portals["a"], OriginB)
            /\ pushToOrigin(hist.pusher, OriginB, m, FALSE)
    \/ handlePortalMessage("p")
    \/ \E j \in Receivers : handleBroadcast(j)
    \/ Return

\* Every call returns, and the event loop of every window dispatches each
\* queued message event in the end, whatever calls are made in between (a
\* handler starts only when no call is running, hence the strong fairness).
SpecNet ==
    /\ InitNet
    /\ [][NextNet]_vars
    /\ WF_vars(Return)
    /\ SF_vars(handlePortalMessage("p"))
    /\ \A j \in Receivers : SF_vars(handleBroadcast(j))

\* ------------------------------------------------ open-window specification
\* The windows are open to other code. A page "a" of origin A adds and removes
\* a portal for B and pushes each message once through it; the page loaded into
\* the portal's iframe constructs "p" in portal mode; "p" and the tab "t" of
\* origin B listen to A. Code that is no engine instance, running in a window
\* of any origin, posts messages to the window of "p" ( window.postMessage
\* needs no engine ), MaxForeignPosts of them at most. The history of pushes,
\* posts and handler invocations is kept.
InitOpen ==
    /\ context = [ i \in Instances |->
            IF i \in {"a", "t"}
            THEN [ constructed |-> TRUE, isPortal |-> FALSE, hasDefaults |-> FALSE ]
            ELSE NoContext ]
    /\ host = [ i \in Instances |-> 0 ]
    /\ parentOrigin = [ i \in Instances |-> Undefined ]
    /\ listeners = [ i \in Instances |-> EmptyObject ]
    /\ portals = [ i \in Instances |-> EmptyObject ]
    /\ listenerKeys = [ i \in Instances |-> << >> ]
    /\ portalKeys = [ i \in Instances |-> << >> ]
    /\ frames = << >>
    /\ busQueue = [ i \in Instances |-> << >> ]
    /\ winQueue = [ i \in Instances |-> << >> ]
    /\ last = Idle
    /\ hist = [ NoHistory EXCEPT !.on = TRUE, !.pusher = "a" ]

NextOpen ==
    \/ ~Has(portals["a"], OriginB) /\ addPortal("a", OriginB, FALSE, TRUE)
    \/ Has(portals["a"], OriginB) /\ removePortal("a", OriginB, FALSE)
    \/ \E f \in 1..Len(frames) : ConstructInFrame("p", TRUE, FALSE, f)
    \/ \E j \in {"p", "t"} :
            ~Has(listeners[j], OriginA) /\ listenToOrigin(j, OriginA, "h", FALSE)
    \/ \E m \in Messages :
            /\ ~Sent(m)
            /\ Has(portals["a"], OriginB)
            /\ pushToOrigin("a", OriginB, m, FALSE)
    \/ \E sender \in SenderOrigins, data \in Messages :
            Len(hist.posted) < MaxForeignPosts /\ WindowPostMessage("p", sender, data)
    \/ handlePortalMessage("p")
    \/ \E j \in {"p", "t"} : handleBroadcast(j)
    \/ Return

SpecOpen == InitOpen /\ [][NextOpen]_vars

\* ------------------------------------------------ two-portal specification
\* A page "a" of origin A adds and removes portals for the origins B and C;
\* the pages loaded into the iframes construct "p" (origin B) and "c" (origin
\* C) in portal mode. "a" listens to B and C and pushes to both; the embedded
\* instances handle what arrives on their windows.
Embedded == {"p", "c"}
Remote == { OriginB, OriginC }

InitPortals ==
    /\ context = [ i \in Instances |->
            IF i = "a"
            THEN [ constructed |-> TRUE, isPortal |-> FALSE, hasDefaults |-> FALSE ]
            ELSE NoContext ]
    /\ host = [ i \in Instances |-> 0 ]
    /\ parentOrigin = [ i \in Instances |-> Undefined ]
    /\ listeners = [ i \in Instances |-> EmptyObject ]
    /\ portals = [ i \in Instances |-> EmptyObject ]
    /\ listenerKeys = [ i \in Instances |-> << >> ]
    /\ portalKeys = [ i \in Instances |-> << >> ]
    /\ frames = << >>
    /\ busQueue = [ i \in Instances |-> << >> ]
    /\ winQueue = [ i \in Instances |-> << >> ]
    /\ last = Idle
    /\ hist = NoHistory

NextPortals ==
    \/ \E O \in Remote, cb \in BOOLEAN : addPortal("a", O, cb, TRUE)
    \/ \E O \in Remote : removePortal("a", O, FALSE)
    \/ \E i \in Embedded, f \in 1..Len(frames) : ConstructInFrame(i, TRUE, FALSE, f)
    \/ \E O \in Remote : listenToOrigin("a", O, "h", FALSE)
    \/ \E O \in Remote, m \in Messages, cb \in BOOLEAN : pushToOrigin("a", O, m, cb)
    \/ \E i \in Embedded : handlePortalMessage(i)
    \/ Return

SpecPortals == InitPortals /\ [][NextPortals]_vars

\* ------------------------------------------------------------------ claims
EffectsOfKind(kind) == SelectSeq(last.effects, LAMBDA e : e.kind = kind)
Range(seq) == { seq[n] : n \in 1..Len(seq) }
IsCall(op) == last.op = op
\* The registry obj has an entry for k.
Registered(obj, k) == k \in DOMAIN obj
\* The registries of the instance that ran the last operation are as before it.
RegistriesUnchanged ==
    /\ listeners[last.inst] = last.preListeners
    /\ portals[last.inst] = last.prePortals
\* The last operation put nothing on the local bus nor on any window.
NothingSent ==
    /\ EffectsOfKind("publish") = << >>
    /\ EffectsOfKind("post") = << >>
    /\ InFlight <= last.preInFlight

\* C1: a portal-mode instance drops an inbound cross-context message whose
\* sender origin is not the captured parent origin: no listener handler is
\* invoked (even one registered for the sender), nothing is published on the
\* local bus, no error is raised and both registries stay as they were.
C1_ForeignMessageDropped ==
    ( IsCall("handlePortalMessage") /\ last.arg # parentOrigin[last.inst] ) =>
        /\ last.result = "ok"
        /\ last.effects = << >>
        /\ NothingSent
        /\ InFlight = last.preInFlight - 1
        /\ busQueue[last.inst] = last.preBusQueue
        /\ RegistriesUnchanged

C1_Witness ==
    /\ IsCall("handlePortalMessage")
    /\ parentOrigin[last.inst] = OriginA
    /\ last.arg = OriginB
    /\ Registered(listeners[last.inst], OriginB)
    /\ Registered(portals[last.inst], OriginA)

\* C2: a portal-mode instance whose captured parent origin is Y handles an
\* inbound message from Y with payload d by publishing exactly one envelope
\* { origin: Y, data: d } on the local bus (queued on every other instance of
\* the channel) and, if it has a listener for Y itself, by invoking that
\* handler with ( Y, d ).
C2_ParentMessageForwarded ==
    ( IsCall("handlePortalMessage") /\ last.arg = parentOrigin[last.inst] ) =>
        LET i == last.inst
            Y == last.arg
            d == last.msg
        IN
        /\ last.result = "ok"
        /\ EffectsOfKind("publish") = << Effect("publish", "symbiosome__", i, 0, Y, d) >>
        /\ EffectsOfKind("handler") =
                IF Registered(listeners[i], Y)
                THEN << Effect("handler", listeners[i][Y], i, 0, Y, d) >>
                ELSE << >>
        /\ EffectsOfKind("callback") = << >>
        /\ \A j \in Subscribers(i) :
                /\ busQueue[j] # << >>
                /\ busQueue[j][Len(busQueue[j])] = [ origin |-> Y, data |-> d ]
        /\ InFlight = last.preInFlight - 1 + Cardinality(Subscribers(i))
        /\ busQueue[i] = last.preBusQueue
        /\ RegistriesUnchanged

C2_Witness ==
    /\ IsCall("handlePortalMessage")
    /\ parentOrigin[last.inst] = OriginA
    /\ last.arg = OriginA
    /\ last.msg = "m2"
    /\ Registered(listeners[last.inst], OriginA)
    /\ listeners[last.inst][OriginA] = "h2"
    /\ Len(EffectsOfKind("handler")) = 1
    /\ busQueue["t"] = << [ origin |-> OriginA, data |-> "m2" ] >>


\* C3, as claimed: pushToOrigin( O, m ) for an O that is not the own origin
\* and has no entry in the portal registry fails with PortalNotFound and does
\* nothing: no post to an embedded context, no publish on the local bus, no
\* listener invoked, no push callback; also once a portal for O was added and
\* removed.
\* pushToOrigin violates it for an O that names a member every object
\* inherits ( "constructor", "toString", ... ): this.portals[ O ] is truthy
\* without an entry, the PortalNotFound check is passed and the call fails
\* with a TypeError at .window.postMessage instead.
C3_PushWithoutPortalFails ==
    ( IsCall("pushToOrigin") /\ last.arg # OriginOf(last.inst)
      /\ ~Registered(last.prePortals, last.arg) ) =>
        /\ last.result = "PortalNotFound"
        /\ last.effects = << >>
        /\ NothingSent
        /\ InFlight = last.preInFlight
        /\ RegistriesUnchanged

\* pushToOrigin( "constructor", m ) on an instance without any portal did not
\* fail with PortalNotFound.
C3_Witness ==
    /\ IsCall("pushToOrigin")
    /\ last.arg = "constructor"
    /\ last.prePortals = EmptyObject
    /\ last.result = "TypeError"
    /\ last.effects = << >>

\* C4: a second listenToOrigin for an origin that already has a listener fails
\* with DuplicateOrigin, fires no onListen callback and leaves the registry
\* mapping the origin to the first handler; a handler that is invoked is always
\* the one the registry holds for the message's origin.
C4_DuplicateListenerRejected ==
    /\ ( IsCall("listenToOrigin") /\ ValidURL(last.arg)
         /\ Registered(last.preListeners, URLOrigin(last.arg)) ) =>
            /\ last.result = "DuplicateOrigin"
            /\ last.effects = << >>
            /\ RegistriesUnchanged
    /\ ( IsCall("listenToOrigin") /\ last.result = "ok" ) =>
            /\ ~Registered(last.preListeners, URLOrigin(last.arg))
            /\ listeners[last.inst] =
                    Put(last.preListeners, URLOrigin(last.arg), last.handler)
    /\ \A e \in Range(EffectsOfKind("handler")) :
            /\ e.inst = last.inst
            /\ Registered(last.preListeners, e.origin)
            /\ e.name = last.preListeners[e.origin]

C4_Witness ==
    /\ IsCall("listenToOrigin")
    /\ last.result = "DuplicateOrigin"
    /\ last.handler = "h2"
    /\ last.arg = "https://a.example:443/portal?x=1"
    /\ listeners[last.inst][OriginA] = "h"

\* C5: no portal registry ever holds the instance's own origin: addPortal with
\* a URL whose canonical origin is the own origin fails with SelfOrigin in
\* every state, creates no iframe and fires no callback.
C5_NoSelfPortal ==
    /\ \A i \in Instances : ~Registered(portals[i], OriginOf(i))
    /\ ( IsCall("addPortal") /\ ValidURL(last.arg)
         /\ URLOrigin(last.arg) = OriginOf(last.inst) ) =>
            /\ last.result = "SelfOrigin"
            /\ last.effects = << >>
            /\ Len(frames) = last.preFrames
            /\ RegistriesUnchanged

C5_Witness ==
    /\ IsCall("addPortal")
    /\ last.result = "SelfOrigin"
    /\ last.arg = "HTTPS://B.EXAMPLE/index.html"
    /\ Registered(portals[last.inst], OriginA)
    /\ Registered(listeners[last.inst], OriginB)

\* C6: for an origin O other than the own origin, addPortal, removePortal,
\* addPortal succeed in turn: a successful removePortal leaves O without a
\* registry entry and its iframe detached, and addPortal for an origin without
\* entry is accepted and registers a fresh iframe whenever the host gives the
\* new iframe a window.
C6_PortalLifecycleRoundTrip ==
    /\ ( IsCall("removePortal") /\ last.result = "ok" ) =>
            /\ Registered(last.prePortals, last.arg)
            /\ portals[last.inst] = Delete(last.prePortals, last.arg)
            /\ ~frames[last.prePortals[last.arg].frame].attached
    /\ ( IsCall("removePortal") /\ last.arg # OriginOf(last.inst)
         /\ Registered(last.prePortals, last.arg) ) => last.result = "ok"
    /\ ( IsCall("addPortal") /\ ValidURL(last.arg)
         /\ URLOrigin(last.arg) # OriginOf(last.inst)
         /\ ~Registered(last.prePortals, URLOrigin(last.arg))
         /\ last.contentWindow ) =>
            LET O == URLOrigin(last.arg)
                f == last.preFrames + 1
            IN
            /\ last.result = "ok"
            /\ Len(frames) = f
            /\ frames[f].attached
            /\ portals[last.inst] = Put(last.prePortals, O, [ frame |-> f, window |-> f ])

C6_Witness ==
    /\ IsCall("addPortal")
    /\ last.result = "ok"
    /\ Registered(portals[last.inst], OriginA)
    /\ \E f \in 1..Len(frames) :
            /\ f < portals[last.inst][OriginA].frame
            /\ frames[f].owner = last.inst
            /\ frames[f].name = OriginA
            /\ ~frames[f].attached

\* C7: addPortal for an origin that already has a portal fails with
\* DuplicateOrigin, keeps the existing entry and its iframe, creates no second
\* iframe and fires no onAdded callback; every registry entry is the one
\* attached iframe created for its origin by its instance.
C7_DuplicatePortalRejected ==
    /\ ( IsCall("addPortal") /\ ValidURL(last.arg)
         /\ Registered(last.prePortals, URLOrigin(last.arg)) ) =>
            /\ last.result = "DuplicateOrigin"
            /\ last.effects = << >>
            /\ Len(frames) = last.preFrames
            /\ RegistriesUnchanged
    /\ \A i \in Instances : \A O \in DOMAIN portals[i] :
            LET f == portals[i][O].frame IN
            /\ f \in 1..Len(frames)
            /\ portals[i][O].window = f
            /\ frames[f].attached
            /\ frames[f].owner = i
            /\ frames[f].name = O
            /\ frames[f].src.parent = OriginOf(i)

C7_Witness ==
    /\ IsCall("addPortal")
    /\ last.result = "DuplicateOrigin"
    /\ last.arg = "https://a.example:443/portal?x=1"
    /\ Registered(portals[last.inst], OriginA)
    /\ Len(frames) < MaxFrames

\* C8: pushToOrigin( ownOrigin, m ) on an instance with a listener for its own
\* origin invokes that handler with ( ownOrigin, m ) exactly once, within the
\* call; the local bus queues the message for the other instances only, never
\* for the publisher.
C8_SelfDeliveryOnce ==
    ( IsCall("pushToOrigin") /\ last.arg = OriginOf(last.inst)
      /\ Registered(last.preListeners, last.arg) ) =>
        /\ last.result = "ok"
        /\ EffectsOfKind("handler") =
                << Effect("handler", last.preListeners[last.arg], last.inst, 0,
                          last.arg, last.msg) >>
        /\ busQueue[last.inst] = last.preBusQueue
        /\ \A j \in Subscribers(last.inst) :
                /\ busQueue[j] # << >>
                /\ busQueue[j][Len(busQueue[j])] =
                        [ origin |-> last.arg, data |-> last.msg ]

C8_Witness ==
    /\ IsCall("pushToOrigin")
    /\ last.arg = OriginB
    /\ last.inst = "p"
    /\ last.msg = "m2"
    /\ Registered(listeners["p"], OriginB)
    /\ Len(EffectsOfKind("handler")) = 1
    /\ busQueue["t"] # << >>

\* C9: a pushToOrigin that succeeds invokes the push callback (the per-call
\* one if given, else the configured default if there is one) exactly once
\* with the origin and message of the call, as the last thing it does, after
\* the one send; whether a listener received the message plays no part.
C9_PushCallbackFires ==
    ( IsCall("pushToOrigin") /\ last.result = "ok" ) =>
        LET i == last.inst
            cbs == EffectsOfKind("callback")
            name == IF last.cb THEN "onPush" ELSE "onPushedMessage"
            sent == EffectsOfKind("publish") \o EffectsOfKind("post")
        IN
        /\ Len(sent) = 1
        /\ sent[1].origin = last.arg
        /\ sent[1].data = last.msg
        /\ last.effects[1] = sent[1]
        /\ IF last.cb \/ context[i].hasDefaults
           THEN /\ cbs = << Effect("callback", name, i, 0, last.arg, last.msg) >>
                /\ last.effects[Len(last.effects)] = cbs[1]
           ELSE cbs = << >>

C9_Witness ==
    /\ IsCall("pushToOrigin")
    /\ last.result = "ok"
    /\ last.arg = OriginOf(last.inst)
    /\ ~Registered(listeners[last.inst], last.arg)
    /\ EffectsOfKind("handler") = << >>
    /\ ~last.cb
    /\ Len(EffectsOfKind("callback")) = 1

\* C10: getOrigins returns exactly the keys of the listener registry and of the
\* portal registry, each origin once even when it is in both, and changes
\* nothing.
C10_GetOriginsIsUnion ==
    IsCall("getOrigins") =>
        LET i == last.inst
            known == (DOMAIN listeners[i]) \cup (DOMAIN portals[i])
        IN
        /\ last.result = "ok"
        /\ Range(last.ret) = known
        /\ Len(last.ret) = Cardinality(known)
        /\ last.effects = << >>
        /\ RegistriesUnchanged
        /\ Len(frames) = last.preFrames
        /\ InFlight = last.preInFlight

C10_Witness ==
    /\ IsCall("getOrigins")
    /\ Registered(portals[last.inst], OriginA)
    /\ Registered(listeners[last.inst], OriginA)
    /\ Registered(listeners[last.inst], OriginB)
    /\ Range(last.ret) = { OriginA, OriginB }
    /\ Len(last.ret) = 2

\* The notification a successful call owes: the per-call callback when one was
\* given, else the configured default, else nothing.
Owed(perCall, dflt, origin, data) ==
    IF last.cb
    THEN << Effect("callback", perCall, last.inst, 0, origin, data) >>
    ELSE IF context[last.inst].hasDefaults
         THEN << Effect("callback", dflt, last.inst, 0, origin, data) >>
         ELSE << >>

\* C11, as claimed: removeListener( O ) without a listener for O, and
\* removePortal( O ) for a remote O without a portal, fail with NotFound and do
\* nothing; otherwise each succeeds, removes the entry for O and nothing else
\* from its own registry (removePortal also detaches that portal's iframe),
\* leaves the other registry alone and notifies the removal with O.
\* Both violate it for an O that names a member every object inherits
\* ( "constructor", "toString", ... ): this.listeners[ O ] and
\* this.portals[ O ] are truthy without an entry, so removeListener returns
\* and notifies the removal of a listener that never existed, and
\* removePortal fails with a TypeError at .frame.remove().
C11_RemoveContract ==
    /\ ( IsCall("removeListener") /\ ~Registered(last.preListeners, last.arg) ) =>
            /\ last.result = "NotFound"
            /\ last.effects = << >>
            /\ RegistriesUnchanged
    /\ ( IsCall("removePortal") /\ last.arg # OriginOf(last.inst)
         /\ ~Registered(last.prePortals, last.arg) ) =>
            /\ last.result = "NotFound"
            /\ last.effects = << >>
            /\ RegistriesUnchanged
    /\ ( IsCall("removeListener") /\ Registered(last.preListeners, last.arg) ) =>
            /\ last.result = "ok"
            /\ listeners[last.inst] = Delete(last.preListeners, last.arg)
            /\ portals[last.inst] = last.prePortals
            /\ last.effects = Owed("onRemoved", "onListenerRemoved", last.arg, Undefined)
    /\ ( IsCall("removePortal") /\ last.arg # OriginOf(last.inst)
         /\ Registered(last.prePortals, last.arg) ) =>
            LET f == last.prePortals[last.arg].frame IN
            /\ last.result = "ok"
            /\ portals[last.inst] = Delete(last.prePortals, last.arg)
            /\ listeners[last.inst] = last.preListeners
            /\ ~frames[f].attached
            /\ \A g \in 1..Len(frames) :
                    ( frames[g].owner = last.inst /\ ~frames[g].attached ) =>
                        ~\E O \in DOMAIN portals[last.inst] :
                            portals[last.inst][O].frame = g
            /\ last.effects =
                    << Effect("removeFrame", last.arg, last.inst, f, last.arg, Undefined) >>
                    \o Owed("onRemoved", "onPortalRemoved", last.arg, Undefined)
    /\ NothingSent \/ ~( IsCall("removeListener") \/ IsCall("removePortal") )

C11_Witness ==
    /\ IsCall("removeListener")
    /\ last.arg = "constructor"
    /\ last.preListeners = EmptyObject
    /\ last.result = "ok"
    /\ last.cb
    /\ last.effects = << Effect("callback", "onRemoved", last.inst, 0,
                                "constructor", Undefined) >>

\* C12: removePortal( ownOrigin ) fails with SelfOrigin, never with NotFound,
\* in every state, and changes nothing; removePortal fails with SelfOrigin for
\* no other origin.
C12_RemoveOwnPortalRejected ==
    /\ ( IsCall("removePortal") /\ last.arg = OriginOf(last.inst) ) =>
            /\ last.result = "SelfOrigin"
            /\ last.effects = << >>
            /\ NothingSent
            /\ InFlight = last.preInFlight
            /\ Len(frames) = last.preFrames
            /\ RegistriesUnchanged
    /\ ( IsCall("removePortal") /\ last.result = "SelfOrigin" ) =>
            last.arg = OriginOf(last.inst)

C12_Witness ==
    /\ IsCall("removePortal")
    /\ last.arg = OriginB
    /\ last.inst = "p"
    /\ last.result = "SelfOrigin"
    /\ Registered(portals["p"], OriginA)
    /\ Registered(listeners["p"], OriginB)

\* C13: a portal-mode instance constructed with the `parent` parameter absent,
\* empty or equal to its own origin is constructed without error and captures
\* no parent origin; an instance without parent origin drops every inbound
\* cross-context message, whatever its sender: nothing is published on the
\* local bus, no handler is invoked; and the captured parent origin of a live
\* instance never changes.
C13_NoParentDropsAll ==
    /\ ( IsCall("constructor") /\ last.cb
         /\ last.arg \in { Undefined, "", OriginOf(last.inst) } ) =>
            /\ last.result = "ok"
            /\ context[last.inst].constructed
            /\ context[last.inst].isPortal
            /\ parentOrigin[last.inst] = Undefined
    /\ ( IsCall("handlePortalMessage") /\ parentOrigin[last.inst] = Undefined ) =>
            /\ last.result = "ok"
            /\ last.effects = << >>
            /\ NothingSent
            /\ busQueue[last.inst] = last.preBusQueue
            /\ \A j \in Subscribers(last.inst) : Len(busQueue[j]) <= last.preInFlight - 1
            /\ RegistriesUnchanged

C13_ParentOriginKept ==
    \A i \in Instances :
        ( context[i].constructed /\ context'[i].constructed ) =>
            parentOrigin'[i] = parentOrigin[i]

\* C13 (the whole claim): no parent origin is captured from an absent, empty or
\* own-origin parameter and nothing is authenticated without one, in every
\* state; and no step changes the parent origin a live instance captured.
C13_NoTrustedParent == []C13_NoParentDropsAll /\ [][C13_ParentOriginKept]_vars

C13_Witness ==
    /\ IsCall("handlePortalMessage")
    /\ context[last.inst].isPortal
    /\ parentOrigin[last.inst] = Undefined
    /\ last.arg = OriginA
    /\ Registered(listeners[last.inst], OriginA)
    /\ Registered(portals[last.inst], OriginA)

\* C14: the constructor of every instance, in portal mode or not, invokes the
\* configured onPortalAdded with the own origin exactly once, and no other
\* callback: what it calls before that is the debug sink, with its diagnostic
\* traces (the channel name first). Both registries are empty afterwards and
\* getOrigins of empty registries returns no origin; no other operation of an
\* instance runs before its constructor, and none ever announces the own
\* origin again.
C14_SelfAnnouncedOnce ==
    /\ IsCall("constructor") =>
            /\ last.result = "ok"
            /\ last.effects =
                    IF context[last.inst].hasDefaults
                    THEN << Effect("callback", "onPortalAdded", last.inst, 0,
                                   OriginOf(last.inst), Undefined) >>
                    ELSE << >>
            /\ \A n \in 1..Len(last.debug) :
                    last.debug[n].message \in
                        { << "Channel ID" >>, << "Parent origin" >>,
                          << "Is portal but parent is undefined" >> }
            /\ context[last.inst].hasDefaults =>
                    /\ last.debug # << >>
                    /\ last.debug[1] =
                            Trace(<< "Channel ID" >>, << channelID(last.inst) >>)
            /\ ~context[last.inst].hasDefaults => last.debug = << >>
            /\ listeners[last.inst] = EmptyObject
            /\ portals[last.inst] = EmptyObject
            /\ allKnownOrigins(last.inst) = << >>
            /\ Len(frames) = last.preFrames
            /\ InFlight <= last.preInFlight
    /\ ( ~IsCall("constructor") /\ ~IsCall("idle") ) =>
            /\ context[last.inst].constructed
            /\ \A e \in Range(EffectsOfKind("callback")) :
                    ~( e.name = "onPortalAdded" /\ e.origin = OriginOf(e.inst) )
    /\ ( IsCall("getOrigins") /\ last.preListeners = EmptyObject
         /\ last.prePortals = EmptyObject ) => last.ret = << >>
    /\ \A e \in Range(last.effects) : e.inst = last.inst

C14_Witness ==
    /\ IsCall("constructor")
    /\ last.inst = "p"
    /\ ~last.cb
    /\ last.arg = OriginA
    /\ context["p"].hasDefaults
    /\ Len(EffectsOfKind("callback")) = 1
    /\ Len(last.debug) = 1
    /\ busQueue["t"] = << >>

\* The standing configuration of the fan-out for the receiver j: "a" has a
\* portal for B, the instance "p" embedded in it runs in portal mode with "a"'s
\* origin as parent origin, and j has a listener for that origin.
FanOutReady(j) ==
    /\ Registered(portals["a"], OriginB)
    /\ context["p"].constructed
    /\ context["p"].isPortal
    /\ host["p"] = portals["a"][OriginB].frame
    /\ parentOrigin["p"] = OriginA
    /\ context[j].constructed
    /\ Registered(listeners[j], OriginA)
\* "a" has just pushed m to B.
PushedToB(m) ==
    /\ IsCall("pushToOrigin")
    /\ last.inst = "a"
    /\ last.arg = OriginB
    /\ last.msg = m
    /\ last.result = "ok"
\* How often the handler of j was invoked with ( origin, m ).
Times(j, origin, m) ==
    Cardinality({ n \in 1..Len(hist.got[j]) :
                    hist.got[j][n] = [ origin |-> origin, data |-> m ] })

\* C15: with a pushing each message once: while the portal for B, its embedded
\* portal-mode instance and the listener for A of an instance j of origin B
\* stay in place, a push of m by "a" to B leads to the handler of j being
\* invoked with ( A, m ), for the embedded instance and for every tab alike;
\* and no handler is ever invoked twice with the same pushed message.
C15_FanOut ==
    /\ [] ( \A j \in Receivers : \A m \in Messages : Times(j, OriginA, m) <= 1 )
    /\ \A j \in Receivers : \A m \in Messages :
            ( PushedToB(m) /\ FanOutReady(j) )
                ~> ( Times(j, OriginA, m) = 1 \/ ~FanOutReady(j) )

C15_Witness ==
    /\ \A j \in Receivers :
            /\ FanOutReady(j)
            /\ hist.got[j] = << [ origin |-> OriginA, data |-> "m1" ] >>
    /\ hist.sent = << [ inst |-> "a", origin |-> OriginB, data |-> "m1" ] >>
    /\ InFlight = 0
    /\ Len(frames) = 1

\* The canonical origin of each URL string the callers use, as the URL
\* standard defines it.
Canon ==
    ( OriginA :> OriginA ) @@ ( "https://a.example:443/portal?x=1" :> OriginA )
    @@ ( OriginB :> OriginB ) @@ ( "HTTPS://B.EXAMPLE/index.html" :> OriginB )
CanonicalOrigins == { OriginA, OriginB, OriginC }

\* C16: listenToOrigin and addPortal key their registry by the canonical
\* origin of the URL string given: a call whose string has the canonical origin
\* of an existing entry fails with DuplicateOrigin whatever the string, a
\* successful call adds the canonical origin as key and hands it to the
\* callback; every registry key and every origin getOrigins returns is
\* canonical, and removeListener, removePortal and pushToOrigin succeed for a
\* registered canonical origin and for no other spelling of it.
C16_CanonicalKeys ==
    /\ \A i \in Instances :
            /\ DOMAIN listeners[i] \subseteq CanonicalOrigins
            /\ DOMAIN portals[i] \subseteq CanonicalOrigins
    /\ ( IsCall("listenToOrigin") /\ last.arg \in DOMAIN Canon ) =>
            IF Registered(last.preListeners, Canon[last.arg])
            THEN /\ last.result = "DuplicateOrigin"
                 /\ RegistriesUnchanged
            ELSE /\ last.result = "ok"
                 /\ listeners[last.inst] =
                        Put(last.preListeners, Canon[last.arg], last.handler)
                 /\ last.effects =
                        Owed("onListen", "onListenToOrigin", Canon[last.arg], Undefined)
    /\ ( IsCall("addPortal") /\ last.arg \in DOMAIN Canon
         /\ Canon[last.arg] # OriginOf(last.inst) ) =>
            IF Registered(last.prePortals, Canon[last.arg])
            THEN /\ last.result = "DuplicateOrigin"
                 /\ RegistriesUnchanged
            ELSE last.result = "ok" =>
                 /\ DOMAIN portals[last.inst] =
                        (DOMAIN last.prePortals) \cup { Canon[last.arg] }
                 /\ EffectsOfKind("callback") =
                        Owed("onAdded", "onPortalAdded", Canon[last.arg], Undefined)
    /\ ( IsCall("removeListener") /\ last.arg \in DOMAIN Canon ) =>
            ( last.result = "ok" <=>
                ( last.arg = Canon[last.arg] /\ Registered(last.preListeners, last.arg) ) )
    /\ ( IsCall("removePortal") /\ last.arg \in DOMAIN Canon ) =>
            ( last.result = "ok" <=>
                ( last.arg = Canon[last.arg] /\ Registered(last.prePortals, last.arg) ) )
    /\ ( IsCall("pushToOrigin") /\ last.arg \in DOMAIN Canon
         /\ last.arg # OriginOf(last.inst) ) =>
            ( last.result = "ok" <=>
                ( last.arg = Canon[last.arg] /\ Registered(last.prePortals, last.arg) ) )
    /\ IsCall("getOrigins") => Range(last.ret) \subseteq CanonicalOrigins

C16_Witness ==
    /\ IsCall("listenToOrigin")
    /\ last.arg = "HTTPS://B.EXAMPLE/index.html"
    /\ last.result = "ok"
    /\ last.cb
    /\ EffectsOfKind("callback") =
            << Effect("callback", "onListen", last.inst, 0, OriginB, Undefined) >>
    /\ DOMAIN listeners[last.inst] = { OriginA, OriginB }
    /\ DOMAIN portals[last.inst] = { OriginA }

\* The per-call callback and the configured default of each notifying method.
PerCallName ==
    [ listenToOrigin |-> "onListen", addPortal |-> "onAdded",
      pushToOrigin |-> "onPush", removePortal |-> "onRemoved",
      removeListener |-> "onRemoved" ]
DefaultName ==
    [ listenToOrigin |-> "onListenToOrigin", addPortal |-> "onPortalAdded",
      pushToOrigin |-> "onPushedMessage", removePortal |-> "onPortalRemoved",
      removeListener |-> "onListenerRemoved" ]

\* C17: a successful listenToOrigin, addPortal, pushToOrigin, removePortal or
\* removeListener invokes, as the last thing it does, the per-call callback if
\* one was given, else the configured default of that method if there is one,
\* else nothing: never two callbacks, never the default beside a per-call
\* callback; a call that fails invokes none.
C17_OneNotification ==
    last.op \in DOMAIN PerCallName =>
        LET cbs == EffectsOfKind("callback")
            key == IF last.op \in { "listenToOrigin", "addPortal" }
                   THEN Canon[last.arg] ELSE last.arg
            data == IF IsCall("pushToOrigin") THEN last.msg ELSE Undefined
        IN
        IF last.result # "ok" THEN cbs = << >>
        ELSE /\ Len(cbs) <= 1
             /\ last.cb =>
                    cbs = << Effect("callback", PerCallName[last.op], last.inst, 0,
                                    key, data) >>
             /\ ( ~last.cb /\ context[last.inst].hasDefaults ) =>
                    cbs = << Effect("callback", DefaultName[last.op], last.inst, 0,
                                    key, data) >>
             /\ ( ~last.cb /\ ~context[last.inst].hasDefaults ) => cbs = << >>
             /\ cbs # << >> => last.effects[Len(last.effects)] = cbs[1]

C17_Witness ==
    /\ IsCall("removeListener")
    /\ last.result = "ok"
    /\ last.cb
    /\ context[last.inst].hasDefaults
    /\ last.effects =
            << Effect("callback", "onRemoved", last.inst, 0, OriginA, Undefined) >>
    /\ Registered(portals[last.inst], OriginA)

\* C18: with several instances of one origin on the local bus, an envelope
\* tagged X arriving at instance I invokes a handler, I's own for X, exactly
\* when I's listener registry holds X at that moment; what the other instances
\* listen to plays no part, and an envelope I has no listener for is dropped:
\* no error, no handler, nothing sent, I's registries unchanged.
C18_OwnRegistryDecides ==
    IsCall("handleBroadcast") =>
        LET I == last.inst
            X == last.arg
        IN
        /\ last.result = "ok"
        /\ last.effects =
                IF Registered(last.preListeners, X)
                THEN << Effect("handler", last.preListeners[X], I, 0, X, last.msg) >>
                ELSE << >>
        /\ RegistriesUnchanged
        /\ NothingSent
        /\ InFlight = last.preInFlight - 1
        /\ Len(frames) = last.preFrames

C18_Witness ==
    /\ IsCall("handleBroadcast")
    /\ last.inst = "t"
    /\ last.arg = OriginA
    /\ last.msg = "m1"
    /\ last.effects = << >>
    /\ ~Registered(listeners["t"], OriginA)
    /\ Registered(listeners["u"], OriginA)
    /\ Registered(listeners["p"], OriginA)
    /\ hist.got["p"] = << [ origin |-> OriginA, data |-> "m1" ] >>
    /\ hist.got["u"] = << [ origin |-> OriginA, data |-> "m1" ] >>
    /\ hist.got["t"] = << >>

\* C19, as claimed: the listener registry is consulted when an envelope
\* arrives, so an envelope whose listener was removed while it was in flight
\* invokes nothing and is gone, and adding a listener replays nothing; and a
\* removal, of a listener or of a portal, takes no message that was already
\* sent out of the queues it is waiting in.
\* removePortal violates the last part: frame.remove() discards the embedded
\* window together with the message events still queued on it.
C19_RemovalKeepsInFlight ==
    /\ ( IsCall("handleBroadcast") /\ ~Registered(last.preListeners, last.arg) ) =>
            /\ last.effects = << >>
            /\ InFlight = last.preInFlight - 1
    /\ IsCall("listenToOrigin") => EffectsOfKind("handler") = << >>
    /\ ( ( IsCall("removeListener") \/ IsCall("removePortal") )
         /\ last.result = "ok" ) =>
            InFlight = last.preInFlight

\* "a" pushed m1 through the portal and removed the portal before the embedded
\* window dispatched the message event: nobody was or will be handed m1.
C19_Witness ==
    /\ IsCall("removePortal")
    /\ last.result = "ok"
    /\ last.preInFlight = 1
    /\ InFlight = 0
    /\ hist.sent = << [ inst |-> "a", origin |-> OriginB, data |-> "m1" ] >>
    /\ \A j \in Receivers : hist.got[j] = << >>
    /\ Registered(listeners["t"], OriginA)

\* The position of the push of m among the pusher's pushes.
SentIndex(m) == CHOOSE n \in 1..Len(hist.sent) : hist.sent[n].data = m

\* C20: the handler of every recipient is invoked with the pusher's messages in
\* the order they were pushed: whatever it was handed was pushed, tagged with
\* the pusher's origin, and of two messages it was handed the one pushed first
\* came first; for "a" pushing through the portal to the embedded instance and
\* on to the tabs, and for a tab pushing to its own origin.
C20_SendOrderKept ==
    \A j \in Instances :
        /\ \A x \in 1..Len(hist.got[j]) :
                /\ hist.got[j][x].origin = Tag
                /\ Sent(hist.got[j][x].data)
        /\ \A x, y \in 1..Len(hist.got[j]) :
                x < y => SentIndex(hist.got[j][x].data) < SentIndex(hist.got[j][y].data)

C20_Witness ==
    /\ hist.pusher = "a"
    /\ hist.sent = << [ inst |-> "a", origin |-> OriginB, data |-> "m2" ],
                      [ inst |-> "a", origin |-> OriginB, data |-> "m1" ] >>
    /\ hist.got["p"] = << [ origin |-> OriginA, data |-> "m2" ],
                          [ origin |-> OriginA, data |-> "m1" ] >>
    /\ busQueue["t"] = << [ origin |-> OriginA, data |-> "m1" ] >>
    /\ hist.got["t"] = << [ origin |-> OriginA, data |-> "m2" ] >>
    /\ busQueue["u"] = << [ origin |-> OriginA, data |-> "m2" ],
                          [ origin |-> OriginA, data |-> "m1" ] >>

\* C21: a successful pushToOrigin( O, m ) for a remote origin O posts m once,
\* with target origin O, to the window of the iframe registered for O: the
\* message event is queued on the instance living there and on no other
\* window, nothing is published on the pusher's local bus, none of its
\* listeners is invoked (not even one for O) and no registry changes.
C21_PushGoesToOnePortal ==
    ( IsCall("pushToOrigin") /\ last.arg # OriginOf(last.inst)
      /\ last.result = "ok" ) =>
        LET i == last.inst
            O == last.arg
            w == last.prePortals[O].window
        IN
        /\ EffectsOfKind("post") = << Effect("post", O, i, w, O, last.msg) >>
        /\ EffectsOfKind("publish") = << >>
        /\ EffectsOfKind("handler") = << >>
        /\ frames[w].owner = i
        /\ frames[w].name = O
        /\ frames[w].attached
        /\ \A j \in HostedIn({w}) :
                /\ OriginOf(j) = O
                /\ winQueue[j] # << >>
                /\ winQueue[j][Len(winQueue[j])] =
                        [ origin |-> OriginOf(i), data |-> last.msg ]
        /\ InFlight = last.preInFlight + Cardinality(HostedIn({w}))
        /\ busQueue[i] = last.preBusQueue
        /\ SumLen(busQueue, Instances) = 0
        /\ RegistriesUnchanged

C21_Witness ==
    /\ IsCall("pushToOrigin")
    /\ last.inst = "a"
    /\ last.arg = OriginB
    /\ last.msg = "m1"
    /\ DOMAIN portals["a"] = { OriginB, OriginC }
    /\ DOMAIN listeners["a"] = { OriginB, OriginC }
    /\ host["p"] = portals["a"][OriginB].frame
    /\ host["c"] = portals["a"][OriginC].frame
    /\ winQueue["p"] = << [ origin |-> OriginA, data |-> "m1" ] >>
    /\ winQueue["c"] = << >>

\* The iframes are as they were before the last operation: none was created,
\* none was removed from the document.
C22_FramesUnchanged ==
    /\ Len(frames) = last.preFrames
    /\ { f \in 1..Len(frames) : frames[f].attached } = last.preAttached
    /\ EffectsOfKind("createFrame") = << >>
    /\ EffectsOfKind("removeFrame") = << >>

\* C22: the listener registry and the portal registry are independent:
\* listenToOrigin and removeListener, failing or not, leave the portal
\* registry and every iframe as they were; addPortal and removePortal leave
\* the listener registry as it was; pushToOrigin leaves both registries as
\* they were. (That an origin can be in both registries at once is the state
\* C22_Witness.)
C22_RegistriesIndependent ==
    /\ ( IsCall("listenToOrigin") \/ IsCall("removeListener") ) =>
            /\ portals[last.inst] = last.prePortals
            /\ C22_FramesUnchanged
    /\ ( IsCall("addPortal") \/ IsCall("removePortal") ) =>
            listeners[last.inst] = last.preListeners
    /\ IsCall("pushToOrigin") =>
            /\ RegistriesUnchanged
            /\ C22_FramesUnchanged

\* The listener of an origin that is also portaled was just removed: the
\* portal of that origin is still registered, its iframe still attached.
C22_Witness ==
    /\ IsCall("removeListener")
    /\ last.result = "ok"
    /\ Registered(last.preListeners, last.arg)
    /\ Registered(last.prePortals, last.arg)
    /\ ~Registered(listeners[last.inst], last.arg)
    /\ Registered(portals[last.inst], last.arg)
    /\ frames[portals[last.inst][last.arg].frame].attached

\* C23: only an instance in portal mode takes messages posted to its window.
\* An instance constructed with isPortal false captures no parent origin,
\* whatever `parent` param its page was opened with, and never runs
\* handlePortalMessage: a message event of its window invokes no handler,
\* publishes nothing on the local bus, notifies nobody and changes no
\* registry, whoever sent it and even with a listener for the sender.
C23_OnlyPortalsTakeWindowMessages ==
    /\ ( IsCall("constructor") /\ ~last.cb ) =>
            /\ ~context[last.inst].isPortal
            /\ parentOrigin[last.inst] = Undefined
    /\ \A i \in Instances :
            ( context[i].constructed /\ ~context[i].isPortal ) =>
                parentOrigin[i] = Undefined
    /\ IsCall("handlePortalMessage") => context[last.inst].isPortal
    /\ IsCall("unheard") =>
            /\ ~context[last.inst].isPortal
            /\ last.effects = << >>
            /\ NothingSent
            /\ busQueue[last.inst] = last.preBusQueue
            /\ InFlight = last.preInFlight - 1
            /\ RegistriesUnchanged

\* A message sent by origin A reached the window of an instance that is not in
\* portal mode and listens to origin A.
C23_Witness ==
    /\ IsCall("unheard")
    /\ last.arg = OriginA
    /\ ~context[last.inst].isPortal
    /\ Registered(listeners[last.inst], OriginA)
    /\ Subscribers(last.inst) # {}

\* The iframes in the document.
C24_Attached == { f \in 1..Len(frames) : frames[f].attached }

\* C24, as claimed: the iframes the engine created and that are still in the
\* document correspond one to one to the keys of the portal registry: every
\* entry has its iframe, every iframe of an instance is the one of an entry;
\* an addPortal that returns created exactly one, a removePortal that returns
\* removed exactly the one of its entry, and an addPortal that throws
\* (SelfOrigin, DuplicateOrigin, TransportUnavailable) leaves none behind.
\* addPortal violates it: the iframe is appended to the document by
\* createFrame before frame.contentWindow is tested, and the throw that
\* follows neither removes it nor registers it.
C24_FramesMatchPortals ==
    /\ \A i \in Instances :
        context[i].constructed =>
            /\ \A O \in DOMAIN portals[i] :
                    /\ portals[i][O].frame \in C24_Attached
                    /\ frames[portals[i][O].frame].owner = i
                    /\ frames[portals[i][O].frame].name = O
            /\ \A f \in C24_Attached :
                    frames[f].owner = i =>
                        /\ Registered(portals[i], frames[f].name)
                        /\ portals[i][frames[f].name].frame = f
    /\ ( IsCall("addPortal") /\ last.result = "ok" ) =>
            /\ Len(frames) = last.preFrames + 1
            /\ C24_Attached = last.preAttached \cup { Len(frames) }
    /\ ( IsCall("removePortal") /\ last.result = "ok" ) =>
            /\ Len(frames) = last.preFrames
            /\ C24_Attached = last.preAttached \ { last.prePortals[last.arg].frame }
    /\ ( IsCall("addPortal") /\ last.result # "ok" ) =>
            C24_Attached = last.preAttached

\* addPortal threw because the new iframe has no window: the iframe is in the
\* document and no entry of the portal registry refers to it.
C24_Witness ==
    /\ IsCall("addPortal")
    /\ last.result = "TransportUnavailable"
    /\ portals[last.inst] = last.prePortals
    /\ \E f \in C24_Attached :
            /\ f \notin last.preAttached
            /\ frames[f].owner = last.inst
            /\ \A O \in DOMAIN portals[last.inst] : portals[last.inst][O].frame # f

\* An instance of origin X pushed `data`, to its own origin or to a portal of
\* the origin of instance j.
C25_PushedBy(X, data, j) ==
    \E n \in 1..Len(hist.sent) :
        /\ hist.sent[n].data = data
        /\ OriginOf(hist.sent[n].inst) = X
        /\ \/ hist.sent[n].origin = OriginOf(hist.sent[n].inst)
           \/ hist.sent[n].origin = OriginOf(j)

\* Code in a window of origin X posted `data` to the window of an instance of
\* the origin of instance j.
C25_PostedBy(X, data, j) ==
    \E n \in 1..Len(hist.posted) :
        /\ hist.posted[n].data = data
        /\ hist.posted[n].origin = X
        /\ OriginOf(hist.posted[n].inst) = OriginOf(j)

\* The same, to the window of a portal-mode instance whose parent origin is X.
C25_PostedByParent(X, data, j) ==
    \E n \in 1..Len(hist.posted) :
        /\ hist.posted[n].data = data
        /\ hist.posted[n].origin = X
        /\ OriginOf(hist.posted[n].inst) = OriginOf(j)
        /\ hist.posted[n].portal
        /\ hist.posted[n].parent = X

\* C25, as claimed: a listener handler is invoked with (X, m) only if an
\* instance whose own origin is X called pushToOrigin with m before, to its
\* own origin or to a portal of the receiving origin. Every envelope on the
\* local bus is published by an engine instance; the windows are open to any
\* code, as window.postMessage is.
C25_OnlyPushesDeliver ==
    \A j \in Instances :
        \A x \in 1..Len(hist.got[j]) :
            C25_PushedBy(hist.got[j][x].origin, hist.got[j][x].data, j)

\* C25, amended: the origin a message is tagged with is the origin of the
\* window that sent it, at every hop, and the sender need not be an engine.
\* Every handler invocation (X, m) and every envelope { origin: X, data: m }
\* published or waiting on the local bus goes back to a pushToOrigin( ., m ) of
\* an instance whose own origin is X, made to its own origin or to a portal
\* of the receiving origin, or to a message m that code in a window of origin
\* X posted to the window of a portal-mode instance of the receiving origin
\* whose parent origin is X; every message event (origin X, data m) waiting
\* on a window goes back to such a push or to a post from origin X. No engine
\* operation changes the origin a message arrived with.
C25_OriginAuthentic ==
    \A j \in Instances :
        /\ \A x \in 1..Len(hist.got[j]) :
                \/ C25_PushedBy(hist.got[j][x].origin, hist.got[j][x].data, j)
                \/ C25_PostedByParent(hist.got[j][x].origin, hist.got[j][x].data, j)
        /\ \A x \in 1..Len(busQueue[j]) :
                \/ C25_PushedBy(busQueue[j][x].origin, busQueue[j][x].data, j)
                \/ C25_PostedByParent(busQueue[j][x].origin, busQueue[j][x].data, j)
        /\ \A x \in 1..Len(winQueue[j]) :
                \/ C25_PushedBy(winQueue[j][x].origin, winQueue[j][x].data, j)
                \/ C25_PostedBy(winQueue[j][x].origin, winQueue[j][x].data, j)
        /\ last.inst = j =>
                \A e \in Range(EffectsOfKind("publish")) \cup Range(EffectsOfKind("handler")) :
                    \/ C25_PushedBy(e.origin, e.data, j)
                    \/ C25_PostedByParent(e.origin, e.data, j)

\* Nobody pushed anything: code of origin A, the parent origin of the embedded
\* instance "p", posted m1 to p's window; p published it and the tab "t"
\* handed (A, m1) to its handler.
C25_Witness ==
    /\ IsCall("handleBroadcast")
    /\ last.inst = "t"
    /\ hist.sent = << >>
    /\ hist.posted = << [ inst |-> "p", origin |-> OriginA, data |-> "m1",
                          portal |-> TRUE, parent |-> OriginA ] >>
    /\ hist.got["t"] = << [ origin |-> OriginA, data |-> "m1" ] >>
    /\ last.effects = << Effect("handler", "h", "t", 0, OriginA, "m1") >>

\* The errors the operations raise.
C26_Failures ==
    { "DuplicateOrigin", "SelfOrigin", "NotFound", "PortalNotFound",
      "TransportUnavailable" }

\* C26: an operation that fails (DuplicateOrigin, SelfOrigin, NotFound,
\* PortalNotFound, TransportUnavailable) leaves the listener registry and the
\* portal registry as they were before the call, puts no message on the
\* local bus nor on any window, invokes no listener handler and invokes
\* neither the per-call callback nor the configured default, also when both
\* are given.
C26_FailureIsAtomic ==
    last.result \in C26_Failures =>
        /\ last.op \in { "listenToOrigin", "addPortal", "pushToOrigin",
                         "removePortal", "removeListener" }
        /\ RegistriesUnchanged
        /\ EffectsOfKind("publish") = << >>
        /\ EffectsOfKind("post") = << >>
        /\ busQueue[last.inst] = last.preBusQueue
        /\ InFlight = last.preInFlight
        /\ EffectsOfKind("handler") = << >>
        /\ EffectsOfKind("callback") = << >>

\* addPortal failed for want of a window, called with a per-call callback on an
\* instance with configured defaults that has a listener.
C26_Witness ==
    /\ IsCall("addPortal")
    /\ last.result = "TransportUnavailable"
    /\ last.cb
    /\ context[last.inst].hasDefaults
    /\ last.preListeners # EmptyObject
    /\ Len(frames) = last.preFrames + 1
    /\ EffectsOfKind("callback") = << >>

\* C27: a listener handler is invoked by handleBroadcast (the local-bus
\* receive path) or by broadcast (the self-delivery path of a push to the
\* own origin and of a message taken from the parent), once per envelope; it
\* is the handler the registry of the invoking instance holds under the
\* envelope's tagged origin, its first argument is that registry key and its
\* second the envelope's data. A handler registered under another origin is
\* not invoked for it.
C27_HandlerOfTaggedOrigin ==
    /\ Len(EffectsOfKind("handler")) <= 1
    /\ EffectsOfKind("handler") # << >> =>
        LET e == EffectsOfKind("handler")[1]
            registry == listeners[last.inst]
        IN
        /\ last.op \in { "handleBroadcast", "handlePortalMessage", "pushToOrigin" }
        /\ IsCall("pushToOrigin") => last.arg = OriginOf(last.inst)
        /\ IsCall("handlePortalMessage") => last.arg = parentOrigin[last.inst]
        /\ e.inst = last.inst
        /\ e.origin = last.arg
        /\ e.data = last.msg
        /\ e.origin \in DOMAIN registry
        /\ e.name = registry[e.origin]
        /\ registry = last.preListeners
    /\ ( IsCall("handleBroadcast") /\ Registered(listeners[last.inst], last.arg) ) =>
            EffectsOfKind("handler") # << >>

\* The instance holds the handler h2 for origin A and h for origin B; an
\* envelope tagged B came in on the local bus and h was invoked with (B, .).
C27_Witness ==
    /\ IsCall("handleBroadcast")
    /\ last.arg = OriginB
    /\ DOMAIN listeners[last.inst] = { OriginA, OriginB }
    /\ listeners[last.inst][OriginA] = "h2"
    /\ listeners[last.inst][OriginB] = "h"
    /\ EffectsOfKind("handler") =
            << Effect("handler", "h", last.inst, 0, OriginB, last.msg) >>

====
